---- MODULE Spec2Model ----
(***************************************************************************)
(* Model of four classes of src/index.ts:                                  *)
(*   Order / Pending / Filled        (State pattern,    lines 411-434)     *)
(*   PriceService / PriceProxy       (Proxy pattern,    lines 468-485)     *)
(*   Trader                          (Command pattern,  lines 292-308)     *)
(*   ConcreteSubject                 (Observer pattern, lines 57-103)      *)
(* The classes share no state; each has its own specification below.       *)
(***************************************************************************)
EXTENDS Integers, Sequences, FiniteSets

\* ------------------------------------------------------------- bounds
NumOrders   == 3   \* Order objects constructed
MaxNext     == 4   \* next() calls per Order
MaxAdd      == 3   \* Trader.add calls in a behaviour
MaxRun      == 3   \* Trader.run calls in a behaviour
MaxObs      == 2   \* entries in ConcreteSubject.observers
MaxUpdates  == 3   \* update() calls recorded in a behaviour
MaxCalls    == 4   \* PriceProxy.getPrice calls in a behaviour
MaxOverlap  == 3   \* getPrice calls in a behaviour whose calls may overlap

\* -------------------------------------------------------- program state
VARIABLES
    order_state,     \* Order.state of each order: the class of the state object
    order_log,       \* console lines printed by next() calls on each order
    queue,           \* Trader.queue
    added,           \* history: every command passed to Trader.add, in order
    executed,        \* console lines printed by Command.execute, in order
    runs,            \* history: number of Trader.run calls
    observers,       \* ConcreteSubject.observers
    subject_state,   \* ConcreteSubject.state
    received,        \* update() calls made by notify, in order
    cache,           \* PriceProxy.cache (a Map: a function on the keys present)
    pc,              \* position of each getPrice call
    callSym,         \* the symbol argument of each getPrice call
    promise,         \* the promise svc.getPrice returned to each call
    ret,             \* how each getPrice call settled
    svcCalls,        \* history: invocations of svc.getPrice per symbol
    okResults        \* history: results of resolved lookups per symbol, in completion order

orderVars   == <<order_state, order_log>>
traderVars  == <<queue, added, executed, runs>>
subjectVars == <<observers, subject_state, received>>
proxyVars   == <<cache, pc, callSym, promise, ret, svcCalls, okResults>>
vars        == <<order_state, order_log, queue, added, executed, runs,
                 observers, subject_state, received,
                 cache, pc, callSym, promise, ret, svcCalls, okResults>>

\* ================================================================ State
Orders == 1..NumOrders

\* The state objects: `new Pending()` and `new Filled()`.
OrderStates == {"Pending", "Filled"}

\* Pending.next(order): log, then order.state = new Filled().
Pending_next(o) ==
    /\ order_log'   = [order_log EXCEPT ![o] = Append(@, "Order filled")]
    /\ order_state' = [order_state EXCEPT ![o] = "Filled"]

\* A Filled state that goes back to Pending.
Filled_next_reopens(o) ==
    /\ order_log'   = [order_log EXCEPT ![o] = Append(@, "No more transitions")]
    /\ order_state' = [order_state EXCEPT ![o] = "Pending"]

\* A Filled state that drops the order's state object.
Filled_next_clears(o) ==
    /\ order_log'   = [order_log EXCEPT ![o] = Append(@, "No more transitions")]
    /\ order_state' = [order_state EXCEPT ![o] = "null"]

\* Filled.next(order): log only.
Filled_next(o) ==
    /\ order_log'   = [order_log EXCEPT ![o] = Append(@, "No more transitions")]
    /\ UNCHANGED order_state

\* Order.next(): this.state.next(this), dispatched on the state object's class.
Order_next(o) ==
    /\ Len(order_log[o]) < MaxNext
    /\ IF order_state[o] = "Pending" THEN Pending_next(o) ELSE Filled_next(o)
    /\ UNCHANGED <<traderVars, subjectVars, proxyVars>>

\* `state: OrderState = new Pending()`
OrderInit ==
    /\ order_state = [o \in Orders |-> "Pending"]
    /\ order_log   = [o \in Orders |-> <<>>]

\* ============================================================== Command
\* The console line printed by execute() of `new BuyOrder("BTCUSDT", 1)` and
\* `new SellOrder("ETHUSDT", 3)`, the two commands the script builds.
Commands == {"Buying 1 of BTCUSDT", "Selling 3 of ETHUSDT"}

\* Command.execute(): console.log of the command's line.
Execute(log, cmd) == Append(log, cmd)

RECURSIVE ForEachExecute(_, _)
\* this.queue.forEach(cmd => cmd.execute()), from the first element on.
ForEachExecute(log, q) ==
    IF q = <<>> THEN log ELSE ForEachExecute(Execute(log, Head(q)), Tail(q))

\* Trader.add(command): this.queue.push(command).
Trader_add(cmd) ==
    /\ Len(added) < MaxAdd
    /\ queue' = Append(queue, cmd)
    /\ added' = Append(added, cmd)
    /\ UNCHANGED <<executed, runs>>
    /\ UNCHANGED <<orderVars, subjectVars, proxyVars>>

\* A run() that forgets to empty the queue.
Trader_run_keeps ==
    /\ runs < MaxRun
    /\ executed' = ForEachExecute(executed, queue)
    /\ runs' = runs + 1
    /\ UNCHANGED <<queue, added>>
    /\ UNCHANGED <<orderVars, subjectVars, proxyVars>>

\* Trader.run(): execute every queued command, then this.queue = [].
Trader_run ==
    /\ runs < MaxRun
    /\ executed' = ForEachExecute(executed, queue)
    /\ queue' = <<>>
    /\ runs' = runs + 1
    /\ UNCHANGED added
    /\ UNCHANGED <<orderVars, subjectVars, proxyVars>>

\* `queue: Command[] = []`
TraderInit ==
    /\ queue = <<>>
    /\ added = <<>>
    /\ executed = <<>>
    /\ runs = 0

\* ============================================================= Observer
\* Observer objects. Two distinct objects may carry the same name.
ObserverObjs == {"a", "b", "c"}

\* ConcreteObserver.name, set by the constructor.
Name(o) == IF o = "b" THEN "Observer 2" ELSE "Observer 1"

\* Arguments of setState.
SubjectStates == {"new state", "new state 2"}

\* ConcreteObserver.update(state), recorded as the call it is.
Update(log, o, st) == Append(log, [observer |-> o, state |-> st])

RECURSIVE Notify(_, _, _)
\* ConcreteSubject.notify(): for (const observer of this.observers) observer.update(this.state)
Notify(log, obs, st) ==
    IF obs = <<>> THEN log ELSE Notify(Update(log, Head(obs), st), Tail(obs), st)

\* ConcreteSubject.attach(observer): this.observers.push(observer).
Subject_attach(o) ==
    /\ Len(observers) < MaxObs
    /\ observers' = Append(observers, o)
    /\ UNCHANGED <<subject_state, received>>
    /\ UNCHANGED <<orderVars, traderVars, proxyVars>>

\* A detach that compares objects instead of names.
Subject_detach_identity(o) ==
    /\ observers' = SelectSeq(observers, LAMBDA obs : obs # o)
    /\ UNCHANGED <<subject_state, received>>
    /\ UNCHANGED <<orderVars, traderVars, proxyVars>>

\* ConcreteSubject.detach(observer): filter(obs => obs.name !== observer.name).
Subject_detach(o) ==
    /\ observers' = SelectSeq(observers, LAMBDA obs : Name(obs) # Name(o))
    /\ UNCHANGED <<subject_state, received>>
    /\ UNCHANGED <<orderVars, traderVars, proxyVars>>

\* ConcreteSubject.notify() called directly.
Subject_notify ==
    /\ Len(received) + Len(observers) <= MaxUpdates
    /\ received' = Notify(received, observers, subject_state)
    /\ UNCHANGED <<observers, subject_state>>
    /\ UNCHANGED <<orderVars, traderVars, proxyVars>>

\* ConcreteSubject.setState(newState): this.state = newState; this.notify().
Subject_setState(v) ==
    /\ Len(received) + Len(observers) <= MaxUpdates
    /\ subject_state' = v
    /\ received' = Notify(received, observers, v)
    /\ UNCHANGED observers
    /\ UNCHANGED <<orderVars, traderVars, proxyVars>>

\* `observers: Observer[] = []`, `state: string = 'initial'`
SubjectInit ==
    /\ observers = <<>>
    /\ subject_state = "initial"
    /\ received = <<>>

\* ================================================================ Proxy
Symbols == {"BTCUSDT", "ETHUSDT"}

\* The price PriceService.getPrice resolves to.
RealPrice == 100

\* Another price an injected service may resolve to.
OtherPrice == RealPrice + 1

\* Reasons an injected service may reject with.
Errors == {"timeout", "unavailable"}

CallIds == 1..MaxCalls
NoSym == "none"
NoPromise == [settled |-> "none"]
NoRet == [kind |-> "none"]

\* PriceService.getPrice(symbol): return Promise.resolve(100).
PriceService_getPrice(symbol) == [settled |-> "resolved", val |-> RealPrice]

\* What `this.svc.getPrice(symbol)` may return when svc never fails: the
\* promise of PriceService, or a promise resolving to another number.
ResolvingService(symbol) ==
    {PriceService_getPrice(symbol), [settled |-> "resolved", val |-> OtherPrice]}

\* What `this.svc.getPrice(symbol)` may return for any svc of the declared
\* type: a Promise<number>, which resolves to a number or rejects.
AnyService(symbol) ==
    ResolvingService(symbol) \cup {[settled |-> "rejected", err |-> e] : e \in Errors}

\* Map.has / Map.get / Map.set on this.cache.
Map_has(m, k) == k \in DOMAIN m
Map_get(m, k) == m[k]
Map_set(m, k, v) == [x \in DOMAIN m \cup {k} |-> IF x = k THEN v ELSE m[x]]

\* The calls already begun are 1..Started; the next call takes the next id.
Started == Cardinality({c \in CallIds : pc[c] # "new"})
InFlight == {c \in CallIds : pc[c] = "await"}

\* A getPrice that never consults the cache.
GetPrice_call_nocheck(c, s, p) ==
    /\ c = Started + 1
    /\ c <= MaxCalls
    /\ callSym' = [callSym EXCEPT ![c] = s]
    /\ svcCalls' = [svcCalls EXCEPT ![s] = @ + 1]
    /\ promise' = [promise EXCEPT ![c] = p]
    /\ pc' = [pc EXCEPT ![c] = "await"]
    /\ UNCHANGED <<cache, ret, okResults>>
    /\ UNCHANGED <<orderVars, traderVars, subjectVars>>

\* A getPrice that joins a lookup already in flight for the same symbol.
GetPrice_call_singleflight(c, s, p) ==
    /\ c = Started + 1
    /\ c <= MaxCalls
    /\ callSym' = [callSym EXCEPT ![c] = s]
    /\ IF Map_has(cache, s)
         THEN /\ ret' = [ret EXCEPT ![c] = [kind |-> "value", val |-> Map_get(cache, s)]]
              /\ pc' = [pc EXCEPT ![c] = "returned"]
              /\ UNCHANGED <<svcCalls, promise>>
         ELSE IF \E d \in InFlight : callSym[d] = s
         THEN /\ promise' = [promise EXCEPT ![c] =
                     promise[CHOOSE d \in InFlight : callSym[d] = s]]
              /\ pc' = [pc EXCEPT ![c] = "await"]
              /\ UNCHANGED <<svcCalls, ret>>
         ELSE /\ svcCalls' = [svcCalls EXCEPT ![s] = @ + 1]
              /\ promise' = [promise EXCEPT ![c] = p]
              /\ pc' = [pc EXCEPT ![c] = "await"]
              /\ UNCHANGED ret
    /\ UNCHANGED <<cache, okResults>>
    /\ UNCHANGED <<orderVars, traderVars, subjectVars>>

\* PriceProxy.getPrice(symbol) up to its await: on a hit return the cached
\* value; on a miss call this.svc.getPrice(symbol), which returns promise p,
\* and suspend on it.
GetPrice_call(c, s, p) ==
    /\ c = Started + 1
    /\ c <= MaxCalls
    /\ callSym' = [callSym EXCEPT ![c] = s]
    /\ IF Map_has(cache, s)
         THEN /\ ret' = [ret EXCEPT ![c] = [kind |-> "value", val |-> Map_get(cache, s)]]
              /\ pc' = [pc EXCEPT ![c] = "returned"]
              /\ UNCHANGED <<svcCalls, promise>>
         ELSE /\ svcCalls' = [svcCalls EXCEPT ![s] = @ + 1]
              /\ promise' = [promise EXCEPT ![c] = p]
              /\ pc' = [pc EXCEPT ![c] = "await"]
              /\ UNCHANGED ret
    /\ UNCHANGED <<cache, okResults>>
    /\ UNCHANGED <<orderVars, traderVars, subjectVars>>

\* A resume that keeps the entry already in the cache.
GetPrice_resume_keepfirst(c) ==
    /\ pc[c] = "await"
    /\ IF promise[c].settled = "resolved"
         THEN /\ cache' = IF Map_has(cache, callSym[c]) THEN cache
                          ELSE Map_set(cache, callSym[c], promise[c].val)
              /\ okResults' = [okResults EXCEPT ![callSym[c]] = Append(@, promise[c].val)]
              /\ ret' = [ret EXCEPT ![c] = [kind |-> "value", val |-> promise[c].val]]
              /\ pc' = [pc EXCEPT ![c] = "returned"]
         ELSE /\ ret' = [ret EXCEPT ![c] = [kind |-> "throw", err |-> promise[c].err]]
              /\ pc' = [pc EXCEPT ![c] = "thrown"]
              /\ UNCHANGED <<cache, okResults>>
    /\ UNCHANGED <<callSym, promise, svcCalls>>
    /\ UNCHANGED <<orderVars, traderVars, subjectVars>>

\* A resume that caches a failure as price 0 and returns it.
GetPrice_resume_negcache(c) ==
    /\ pc[c] = "await"
    /\ IF promise[c].settled = "resolved"
         THEN /\ cache' = Map_set(cache, callSym[c], promise[c].val)
              /\ okResults' = [okResults EXCEPT ![callSym[c]] = Append(@, promise[c].val)]
              /\ ret' = [ret EXCEPT ![c] = [kind |-> "value", val |-> promise[c].val]]
              /\ pc' = [pc EXCEPT ![c] = "returned"]
         ELSE /\ cache' = Map_set(cache, callSym[c], 0)
              /\ ret' = [ret EXCEPT ![c] = [kind |-> "throw", err |-> promise[c].err]]
              /\ pc' = [pc EXCEPT ![c] = "thrown"]
              /\ UNCHANGED okResults
    /\ UNCHANGED <<callSym, promise, svcCalls>>
    /\ UNCHANGED <<orderVars, traderVars, subjectVars>>

\* A resume that writes the price under every symbol.
GetPrice_resume_allkeys(c) ==
    /\ pc[c] = "await"
    /\ IF promise[c].settled = "resolved"
         THEN /\ cache' = [x \in Symbols |-> promise[c].val]
              /\ okResults' = [okResults EXCEPT ![callSym[c]] = Append(@, promise[c].val)]
              /\ ret' = [ret EXCEPT ![c] = [kind |-> "value", val |-> promise[c].val]]
              /\ pc' = [pc EXCEPT ![c] = "returned"]
         ELSE /\ ret' = [ret EXCEPT ![c] = [kind |-> "throw", err |-> promise[c].err]]
              /\ pc' = [pc EXCEPT ![c] = "thrown"]
              /\ UNCHANGED <<cache, okResults>>
    /\ UNCHANGED <<callSym, promise, svcCalls>>
    /\ UNCHANGED <<orderVars, traderVars, subjectVars>>

\* PriceProxy.getPrice(symbol) from its await on: when the promise resolves,
\* this.cache.set(symbol, price) and return price; when it rejects, the await
\* throws and the call rejects with the same reason.
GetPrice_resume(c) ==
    /\ pc[c] = "await"
    /\ IF promise[c].settled = "resolved"
         THEN /\ cache' = Map_set(cache, callSym[c], promise[c].val)
              /\ okResults' = [okResults EXCEPT ![callSym[c]] = Append(@, promise[c].val)]
              /\ ret' = [ret EXCEPT ![c] = [kind |-> "value", val |-> promise[c].val]]
              /\ pc' = [pc EXCEPT ![c] = "returned"]
         ELSE /\ ret' = [ret EXCEPT ![c] = [kind |-> "throw", err |-> promise[c].err]]
              /\ pc' = [pc EXCEPT ![c] = "thrown"]
              /\ UNCHANGED <<cache, okResults>>
    /\ UNCHANGED <<callSym, promise, svcCalls>>
    /\ UNCHANGED <<orderVars, traderVars, subjectVars>>

\* `cache = new Map<string, number>()`; no call has begun.
ProxyInit ==
    /\ cache = [x \in {} |-> 0]
    /\ pc = [c \in CallIds |-> "new"]
    /\ callSym = [c \in CallIds |-> NoSym]
    /\ promise = [c \in CallIds |-> NoPromise]
    /\ ret = [c \in CallIds |-> NoRet]
    /\ svcCalls = [s \in Symbols |-> 0]
    /\ okResults = [s \in Symbols |-> <<>>]

\* ======================================================= specifications
Init == OrderInit /\ TraderInit /\ SubjectInit /\ ProxyInit

\* Orders advanced in any order.
NextOrder == \E o \in Orders : Order_next(o)
SpecOrder == Init /\ [][NextOrder]_vars

\* One trader, add and run in any order.
NextTrader ==
    \/ \E cmd \in Commands : Trader_add(cmd)
    \/ Trader_run
SpecTrader == Init /\ [][NextTrader]_vars

\* One subject, its four methods in any order.
NextSubject ==
    \/ \E o \in ObserverObjs : Subject_attach(o)
    \/ \E o \in ObserverObjs : Subject_detach(o)
    \/ \E v \in SubjectStates : Subject_setState(v)
    \/ Subject_notify
SpecSubject == Init /\ [][NextSubject]_vars

\* One proxy over any service; a call may begin while others are suspended
\* at their await, and suspended calls resume in any order.
NextProxy ==
    \/ \E c \in 1..MaxOverlap, s \in Symbols : \E p \in AnyService(s) :
          GetPrice_call(c, s, p)
    \/ \E c \in CallIds : GetPrice_resume(c)
SpecProxy == Init /\ [][NextProxy]_vars

\* One proxy over a service that never fails, each call awaited before the
\* next one begins.
NextProxySeq ==
    \/ \E c \in CallIds, s \in Symbols : \E p \in ResolvingService(s) :
          InFlight = {} /\ GetPrice_call(c, s, p)
    \/ \E c \in CallIds : GetPrice_resume(c)
SpecProxySeq == Init /\ [][NextProxySeq]_vars

\* =============================================================== claims
Last(q) == q[Len(q)]
CallsFor(s) == {c \in CallIds : callSym[c] = s}
FirstCall(s) == CHOOSE c \in CallsFor(s) : \A d \in CallsFor(s) : c <= d
Invoked(c) == promise[c] # NoPromise

\* C1: on every order, once next() has been called the state is Filled, the
\* first call logged "Order filled" and every later call logged "No more
\* transitions".
C1_FilledAfterFirstNext ==
    \A o \in Orders :
        Len(order_log[o]) >= 1 =>
            /\ order_state[o] = "Filled"
            /\ order_log[o][1] = "Order filled"
            /\ \A i \in 2..Len(order_log[o]) : order_log[o][i] = "No more transitions"

\* An order that has been advanced three times or more.
C1_Witness ==
    \E o \in Orders : Len(order_log[o]) >= 3 /\ order_state[o] = "Filled"

\* C8: an order's state is always Pending or Filled, and it is Pending as long
\* as next() has not been called on it.
C8_StateIsPendingOrFilled ==
    \A o \in Orders :
        /\ order_state[o] \in OrderStates
        /\ order_log[o] = <<>> => order_state[o] = "Pending"

\* A fresh order next to one advanced twice.
C8_Witness ==
    \E o1, o2 \in Orders :
        /\ order_log[o1] = <<>> /\ order_state[o1] = "Pending"
        /\ Len(order_log[o2]) >= 2 /\ order_state[o2] = "Filled"

\* C9: every command added is either still queued or has been executed once,
\* in the order of the adds; a run() executes all that is queued and leaves the
\* queue empty, so that a run() on an empty queue executes nothing.
C9_RunExecutesQueueOnce ==
    /\ [](added = executed \o queue)
    /\ [][runs' # runs =>
            /\ queue' = <<>>
            /\ executed' = added
            /\ Len(executed') = Len(executed) + Len(queue)
            /\ queue = <<>> => executed' = executed]_vars

\* Two different commands executed in the order added, the queue empty again
\* after the second run.
C9_Witness ==
    /\ runs >= 2
    /\ queue = <<>>
    /\ Len(executed) = 2
    /\ executed = added
    /\ executed[1] # executed[2]

\* C10: setState(v) updates each entry of the observer list once with v, in
\* list order; detach(o) removes exactly the entries named o.name; an entry of
\* a name absent from the list appears only through attach.
C10_NotifyAndDetachByName ==
    [][/\ \A v \in SubjectStates :
            Subject_setState(v) =>
                received' = received \o
                    [i \in 1..Len(observers) |-> [observer |-> observers[i], state |-> v]]
       /\ \A o \in ObserverObjs :
            Subject_detach(o) =>
                /\ \A i \in 1..Len(observers') : Name(observers'[i]) # Name(o)
                /\ SelectSeq(observers', LAMBDA x : Name(x) # Name(o))
                     = SelectSeq(observers, LAMBDA x : Name(x) # Name(o))
       /\ \A o \in ObserverObjs :
            (/\ \A i \in 1..Len(observers) : Name(observers[i]) # Name(o)
             /\ \E i \in 1..Len(observers') : Name(observers'[i]) = Name(o))
            => \E a \in ObserverObjs : Name(a) = Name(o) /\ Subject_attach(a)
      ]_vars

\* Two objects of one name were attached and updated, both were detached by
\* name, and the observer of the other name was attached and updated alone.
C10_Witness ==
    /\ Len(received) = 3
    /\ received[1] = [observer |-> "a", state |-> "new state"]
    /\ received[2] = [observer |-> "c", state |-> "new state"]
    /\ received[3] = [observer |-> "b", state |-> "new state 2"]
    /\ observers = <<"b">>

\* C2: with calls made one after the other on a service that does not fail,
\* only the first getPrice(s) invokes the service, once, and every getPrice(s)
\* returns the value the first one returned.
C2_FirstCallFetchesLaterCallsHit ==
    \A s \in Symbols :
        CallsFor(s) # {} =>
            /\ svcCalls[s] = 1
            /\ Invoked(FirstCall(s))
            /\ \A c \in CallsFor(s) :
                /\ c # FirstCall(s) => ~Invoked(c)
                /\ pc[c] = "returned" =>
                     /\ pc[FirstCall(s)] = "returned"
                     /\ ret[c] = ret[FirstCall(s)]

\* Three calls for one symbol returned, the service having answered with the
\* other price.
C2_Witness ==
    \E s \in Symbols :
        /\ Cardinality({c \in CallsFor(s) : pc[c] = "returned"}) >= 3
        /\ ret[FirstCall(s)] = [kind |-> "value", val |-> OtherPrice]

\* C3 as stated: the service is invoked at most once per key.
C3_AtMostOncePerKey ==
    \A k \in Symbols : svcCalls[k] <= 1

\* C3 as amended: no step invokes the service for a key that is in the cache.
C3_NoLookupOnceCached ==
    [][\A k \in Symbols : Map_has(cache, k) => svcCalls'[k] = svcCalls[k]]_vars

\* A call was served from the cache for a key the service was invoked twice for.
C3_Witness ==
    \E c \in CallIds :
        /\ pc[c] = "returned"
        /\ ~Invoked(c)
        /\ svcCalls[callSym[c]] >= 2

\* C4: two calls suspended at their await for one key have each invoked the
\* service, so it has been invoked twice or more for that key.
C4_OverlappingMissesBothInvoke ==
    \A c1, c2 \in CallIds :
        (c1 # c2 /\ pc[c1] = "await" /\ pc[c2] = "await" /\ callSym[c1] = callSym[c2])
        => svcCalls[callSym[c1]] >= 2

\* Two calls for one uncached key are suspended, neither has written the cache,
\* and the service has been invoked twice for the key.
C4_Witness ==
    \E c1, c2 \in CallIds :
        /\ c1 # c2
        /\ pc[c1] = "await" /\ pc[c2] = "await"
        /\ callSym[c1] = callSym[c2]
        /\ ~Map_has(cache, callSym[c1])
        /\ svcCalls[callSym[c1]] = 2

\* C5 as stated: a cached value is the result of the first lookup that
\* resolved for its key.
C5_FirstResultKept ==
    \A k \in Symbols : Map_has(cache, k) => Map_get(cache, k) = Head(okResults[k])

\* C5 as amended: a key is cached exactly when a lookup resolved for it, and
\* its value is the result of the lookup that resolved last.
C5_LatestResultKept ==
    \A k \in Symbols :
        /\ Map_has(cache, k) <=> okResults[k] # <<>>
        /\ Map_has(cache, k) => Map_get(cache, k) = Last(okResults[k])

\* Two lookups resolved for one key with different prices.
C5_Witness ==
    \E k \in Symbols :
        /\ Map_has(cache, k)
        /\ Len(okResults[k]) >= 2
        /\ Head(okResults[k]) # Last(okResults[k])

\* C6: a call whose lookup rejects throws the same reason, writes no cache
\* entry and invokes nothing more; a call for a key that failed before and is
\* not cached invokes the service again.
C6_FailureUncachedNoRetry ==
    [][\A c \in CallIds :
        /\ (pc[c] = "await" /\ promise[c].settled = "rejected" /\ pc'[c] # pc[c]) =>
              /\ cache' = cache
              /\ svcCalls' = svcCalls
              /\ pc'[c] = "thrown"
              /\ ret'[c] = [kind |-> "throw", err |-> promise[c].err]
        /\ (/\ pc[c] = "new" /\ pc'[c] # "new"
            /\ \E d \in CallIds : pc[d] = "thrown" /\ callSym[d] = callSym'[c]
            /\ ~Map_has(cache, callSym'[c])) =>
              /\ pc'[c] = "await"
              /\ svcCalls'[callSym'[c]] = svcCalls[callSym'[c]] + 1
      ]_vars

\* A call failed, a later call for the same key invoked the service again, and
\* the failure left nothing in the cache.
C6_Witness ==
    \E c1, c2 \in CallIds :
        /\ c1 < c2
        /\ callSym[c1] = callSym[c2]
        /\ pc[c1] = "thrown" /\ ret[c1] = [kind |-> "throw", err |-> "unavailable"]
        /\ Invoked(c2)
        /\ svcCalls[callSym[c1]] = 2
        /\ cache = [x \in {} |-> 0]

\* C7: a step of a getPrice(s) call leaves every cache entry of another key as
\* it is; a call that misses on s invokes the service once, for s alone, and
\* when its lookup resolves the result is cached under s.
C7_KeysAreIndependent ==
    [][\A c \in CallIds :
        pc'[c] # pc[c] =>
            /\ \A k \in Symbols \ {callSym'[c]} :
                /\ Map_has(cache', k) <=> Map_has(cache, k)
                /\ Map_has(cache, k) => Map_get(cache', k) = Map_get(cache, k)
            /\ (pc[c] = "new" /\ ~Map_has(cache, callSym'[c])) =>
                /\ pc'[c] = "await"
                /\ svcCalls' = [svcCalls EXCEPT ![callSym'[c]] = @ + 1]
            /\ (pc[c] = "await" /\ promise[c].settled = "resolved") =>
                /\ Map_has(cache', callSym[c])
                /\ Map_get(cache', callSym[c]) = promise[c].val
      ]_vars

\* Both symbols cached with different prices, one lookup each.
C7_Witness ==
    \E s1, s2 \in Symbols :
        /\ s1 # s2
        /\ Map_has(cache, s1) /\ Map_has(cache, s2)
        /\ Map_get(cache, s1) # Map_get(cache, s2)
        /\ svcCalls[s1] = 1 /\ svcCalls[s2] = 1

====
